---- MODULE Spec2Model ----
(***************************************************************************)
(* Model of node-docs-compare (src/index.js): the documentation of two     *)
(* major versions of the runtime is fetched (through a disk cache), each   *)
(* module document is normalized into a flat list of methods and classes,  *)
(* and the methods that are new in the newer version are reported.         *)
(*                                                                         *)
(* JavaScript values are modelled as follows.  An optional field (absent,  *)
(* undefined or null against present) is a sequence of length 0 or 1.  An  *)
(* array is a sequence, an object is a record.  A call that may throw      *)
(* returns a record [ok, value, error, log]: the value it returned or the  *)
(* error it threw, and the lines it wrote to standard error on the way.    *)
(***************************************************************************)
EXTENDS Integers, Sequences, FiniteSets, TLC

VARIABLES
    pc,              \* position of the main function
    cache,           \* files under ./cache: <<version, moduleName>> -> text
    oldModuleList,   \* module names of the older version
    newModuleList,   \* module names of the newer version
    i,               \* index of the two for loops
    oldModules,      \* normalized modules of the older version
    newModules,      \* normalized modules of the newer version
    idx,             \* position of oldModules.forEach
    stdout,          \* lines written by console.log
    stderr,          \* lines written by console.error
    exitCode,        \* <<>> while the process runs, then <<code>>
    requested,       \* <<key>> if the last step issued a request for a module document
    response,        \* <<response>> the HTTP response to that request
    topLevelModule,  \* <<document>> the last document returned by getModuleDefinition
    input,           \* argument of the function under study
    output           \* <<result>> once that function has returned

vars == <<pc, cache, oldModuleList, newModuleList, i, oldModules, newModules,
          idx, stdout, stderr, exitCode, requested, response, topLevelModule,
          input, output>>

-----------------------------------------------------------------------------
(* Bounds of the explored inputs. *)

MaxSignatures == 2
MaxNodes == 4
MaxList == 2
MaxOld == 2
MaxNew == 2

-----------------------------------------------------------------------------
(* JavaScript values. *)

None == <<>>
Some(x) == <<x>>

Ok(v, log) == [ok |-> TRUE, value |-> <<v>>, error |-> "", log |-> log]
Throw(e, log) == [ok |-> FALSE, value |-> <<>>, error |-> e, log |-> log]

AllOk(rs) == \A k \in DOMAIN rs : rs[k].ok
Values(rs) == [k \in DOMAIN rs |-> rs[k].value[1]]

RECURSIVE Concat(_)
Concat(ss) == IF ss = <<>> THEN <<>> ELSE Concat(SubSeq(ss, 1, Len(ss) - 1)) \o ss[Len(ss)]

SeqsUpTo(S, n) == UNION {[1..k -> S] : k \in 0..n}

-----------------------------------------------------------------------------
(* createMethod *)

createMethodFirstSignature(m) ==
    IF m.signatures = <<>>
    THEN Throw("TypeError", <<>>)
    ELSE LET ret == m.signatures[1]["return"]
             returnValue == IF ret = None THEN None ELSE Some(ret[1].type)
         IN Ok([name |-> m.name,
                signature |-> m.textRaw,
                returnType |-> IF returnValue = None \/ returnValue = Some("")
                               THEN None ELSE returnValue],
               <<>>)

createMethod(m) ==
    IF Len(m.signatures) # 1
    THEN Throw("AssertionError", <<>>)
    ELSE LET ret == m.signatures[1]["return"]
             \* m.signatures[0]['return'] && m.signatures[0]['return'].type
             returnValue == IF ret = None THEN None ELSE Some(ret[1].type)
         IN Ok([name |-> m.name,
                signature |-> m.textRaw,
                \* returnValue || null: undefined and the empty string are falsy
                returnType |-> IF returnValue = None \/ returnValue = Some("")
                               THEN None ELSE returnValue],
               <<>>)

-----------------------------------------------------------------------------
(* flatten *)

Arr(items) == [isArray |-> TRUE, items |-> items, obj |-> None]
Obj(o) == [isArray |-> FALSE, items |-> <<>>, obj |-> Some(o)]
Objs(s) == Arr([k \in DOMAIN s |-> Obj(s[k])])
Unwrap(a) == [k \in DOMAIN a |-> a[k].obj[1]]

RECURSIVE flattenPrepend(_)
flattenPrepend(a) ==
    IF a = <<>>
    THEN <<>>
    ELSE LET acc == flattenPrepend(SubSeq(a, 1, Len(a) - 1))
             curr == a[Len(a)]
         IN IF curr.isArray THEN flattenPrepend(curr.items) \o acc ELSE Append(acc, curr)

RECURSIVE flatten(_)
flatten(a) ==
    IF a = <<>>
    THEN <<>>
    ELSE LET acc == flatten(SubSeq(a, 1, Len(a) - 1))
             curr == a[Len(a)]
         IN IF curr.isArray THEN acc \o flatten(curr.items) ELSE Append(acc, curr)

-----------------------------------------------------------------------------
(* createModuleForVersion, called with moduleMetadata *)

ExpansionError == "recurisve module expansion error"

RECURSIVE createModuleForVersion(_)
createModuleForVersion(moduleMetadata) ==
    LET methods ==
            IF moduleMetadata.methods # None
            THEN [k \in DOMAIN moduleMetadata.methods[1] |->
                     createMethod(moduleMetadata.methods[1][k])]
            ELSE <<>>
        withMethods ==
            IF moduleMetadata.classes # None
            THEN SelectSeq(moduleMetadata.classes[1], LAMBDA c : c.methods # None)
            ELSE <<>>
        classMethods ==
            [k \in DOMAIN withMethods |->
                [n \in DOMAIN withMethods[k].methods[1] |->
                    createMethod(withMethods[k].methods[1][n])]]
        classes ==
            [k \in DOMAIN withMethods |->
                [methods |-> Values(classMethods[k]), name |-> withMethods[k].name]]
        expanded ==
            IF moduleMetadata.modules # None
            THEN [k \in DOMAIN moduleMetadata.modules[1] |->
                     createModuleForVersion(moduleMetadata.modules[1][k])]
            ELSE <<>>
        \* the catch block turns a failed descendant into null
        modules == [k \in DOMAIN expanded |-> expanded[k].value]
        log == Concat([k \in DOMAIN expanded |->
                         expanded[k].log \o
                         (IF expanded[k].ok THEN <<>> ELSE <<ExpansionError>>)])
    IN  IF ~AllOk(methods)
        THEN Throw("AssertionError", <<>>)
        ELSE IF \E k \in DOMAIN classMethods : ~AllOk(classMethods[k])
        THEN Throw("AssertionError", <<>>)
        ELSE IF \E k \in DOMAIN modules : modules[k] = None
        THEN \* m.methods of null
             Throw("TypeError", log)
        ELSE Ok([name |-> moduleMetadata.name,
                 methods |-> Unwrap(flatten(<<Objs(Values(methods)),
                                 Arr([k \in DOMAIN modules |-> Objs(modules[k][1].methods)])>>)),
                 classes |-> Unwrap(flatten(<<Objs(classes),
                                 Arr([k \in DOMAIN modules |-> Objs(modules[k][1].classes)])>>))],
                log)

-----------------------------------------------------------------------------
(* Raw documentation data the functions are applied to. *)

Signatures ==
    {[return |-> None]} \cup {[return |-> Some([type |-> t])] : t \in {"", "string", "null"}}

RawMethods ==
    [name : {"readFile", "x"}, textRaw : {"fs.readFile()", "x"},
     signatures : SeqsUpTo(Signatures, MaxSignatures)]

NoReturn == <<[return |-> None]>>
Returns(t) == <<[return |-> Some([type |-> t])]>>

mx == [name |-> "x", textRaw |-> "m.x()", signatures |-> NoReturn]
my == [name |-> "y", textRaw |-> "m.y(a)", signatures |-> Returns("string")]
mz == [name |-> "z", textRaw |-> "m.z()", signatures |-> Returns("")]
mTwo == [name |-> "w", textRaw |-> "m.w()", signatures |-> NoReturn \o Returns("string")]

\* the members of one module and the value of its `modules` field when it has no submodule
OwnMembers ==
    { [name |-> "a", methods |-> None, classes |-> None, modules |-> None],
      [name |-> "b", methods |-> Some(<<mx>>), classes |-> None, modules |-> Some(<<>>)],
      [name |-> "c", methods |-> Some(<<my, mz>>),
       classes |-> Some(<<[name |-> "C", methods |-> Some(<<mz>>)]>>), modules |-> None],
      [name |-> "d", methods |-> Some(<<mTwo>>), classes |-> None, modules |-> None],
      [name |-> "e", methods |-> Some(<<>>),
       classes |-> Some(<<[name |-> "E", methods |-> Some(<<>>)],
                          [name |-> "N", methods |-> None],
                          [name |-> "D", methods |-> Some(<<mx, my>>)]>>),
       modules |-> Some(<<>>)],
      [name |-> "f", methods |-> None,
       classes |-> Some(<<[name |-> "F", methods |-> Some(<<my, mTwo>>)]>>), modules |-> None] }

\* a module without submodules
Leaf(own) == own

\* moduleMetadata with one more submodule, added at the end of the modules list of the
\* module found after `depth` steps down the last submodules
RECURSIVE AddLast(_, _, _)
AddLast(moduleMetadata, depth, submodule) ==
    LET subs == IF moduleMetadata.modules = None THEN <<>> ELSE moduleMetadata.modules[1]
    IN IF depth = 0
       THEN [moduleMetadata EXCEPT !.modules = Some(Append(subs, submodule))]
       ELSE [moduleMetadata EXCEPT !.modules =
                Some([subs EXCEPT ![Len(subs)] = AddLast(subs[Len(subs)], depth - 1, submodule)])]

RECURSIVE LastDepth(_)
LastDepth(moduleMetadata) ==
    IF moduleMetadata.modules \in {None, Some(<<>>)}
    THEN 0
    ELSE 1 + LastDepth(moduleMetadata.modules[1][Len(moduleMetadata.modules[1])])

RECURSIVE NodeCount(_)
NodeCount(moduleMetadata) ==
    IF moduleMetadata.modules \in {None, Some(<<>>)}
    THEN 1
    ELSE LET subs == moduleMetadata.modules[1]
             RECURSIVE Total(_)
             Total(n) == IF n = 0 THEN 0 ELSE NodeCount(subs[n]) + Total(n - 1)
         IN 1 + Total(Len(subs))

-----------------------------------------------------------------------------
(* Specifications that apply one function to every input of a bounded set. *)

NotRunning ==
    /\ cache = <<>>
    /\ oldModuleList = <<>>
    /\ newModuleList = <<>>
    /\ i = 0
    /\ oldModules = <<>>
    /\ newModules = <<>>
    /\ idx = 0
    /\ stdout = <<>>
    /\ stderr = <<>>
    /\ exitCode = None
    /\ requested = None
    /\ response = None
    /\ topLevelModule = None

InitMethod ==
    /\ pc = "createMethod"
    /\ input \in RawMethods
    /\ output = None
    /\ NotRunning

CallCreateMethod ==
    /\ pc = "createMethod"
    /\ pc' = "createMethod returned"
    /\ output' = Some(createMethod(input))
    /\ UNCHANGED <<cache, oldModuleList, newModuleList, i, oldModules, newModules, idx,
                   stdout, stderr, exitCode, requested, response, topLevelModule, input>>

NextMethod == CallCreateMethod

SpecMethod == InitMethod /\ [][NextMethod]_vars

InitModule ==
    /\ pc = "createModuleForVersion"
    /\ input \in {Leaf(own) : own \in OwnMembers}
    /\ output = None
    /\ NotRunning

\* the documentation tree grows by one submodule
AddSubmodule ==
    /\ pc = "createModuleForVersion"
    /\ NodeCount(input) < MaxNodes
    /\ \E depth \in 0..LastDepth(input), own \in OwnMembers :
          input' = AddLast(input, depth, Leaf(own))
    /\ UNCHANGED <<pc, cache, oldModuleList, newModuleList, i, oldModules, newModules, idx,
                   stdout, stderr, exitCode, requested, response, topLevelModule, output>>

CallCreateModuleForVersion ==
    /\ pc = "createModuleForVersion"
    /\ pc' = "createModuleForVersion returned"
    /\ output' = Some(createModuleForVersion(input))
    /\ stderr' = stderr \o output'[1].log
    /\ UNCHANGED <<cache, oldModuleList, newModuleList, i, oldModules, newModules, idx,
                   stdout, exitCode, requested, response, topLevelModule, input>>

NextModule == AddSubmodule \/ CallCreateModuleForVersion

SpecModule == InitModule /\ [][NextModule]_vars

-----------------------------------------------------------------------------
(* The network, the cache files and the top-level call of createModuleForVersion. *)

olderVersion == "10"
newerVersion == "12"

\* Number(arg), NaN being <<>>
Number(arg) ==
    CASE arg = "10" -> Some(10)
      [] arg = "12" -> Some(12)
      [] arg = "0" -> Some(0)
      [] OTHER -> None

Arguments == {<<>>, <<"10">>, <<"10", "abc">>, <<"0", "12">>, <<olderVersion, newerVersion>>}

\* JSON.stringify and JSON.parse: a text either parses to a document or does not
Stringify(document) == [parses |-> TRUE, value |-> document]
Parse(text) == IF text.parses THEN Ok(text.value, <<>>) ELSE Throw("SyntaxError", <<>>)

Wrapped(n, methods, classes, modules) ==
    [modules |-> Some(<<[name |-> n, methods |-> methods, classes |-> classes,
                         modules |-> modules]>>)]

NoModulesDocument == [modules |-> None]

\* the documents the server may answer with for a module
Documents(moduleName) ==
    IF moduleName = "fs"
    THEN { Wrapped("fs", Some(<<mx>>), None, None),
           Wrapped("fs", Some(<<mx>>), None,
                   Some(<<[name |-> "promises", methods |-> Some(<<my>>), classes |-> None,
                           modules |-> Some(<<>>)],
                          [name |-> "constants", methods |-> None, classes |-> None,
                           modules |-> None]>>)),
           Wrapped("fs", Some(<<mx, mTwo>>), None, None) }
    ELSE { NoModulesDocument,
           Wrapped("os", Some(<<my>>),
                   Some(<<[name |-> "F", methods |-> Some(<<my, mTwo>>)]>>), None),
           [modules |-> Some(<<[name |-> "os", methods |-> None, classes |-> None,
                                modules |-> None],
                               [name |-> "tty", methods |-> None, classes |-> None,
                                modules |-> None]>>)],
           Wrapped("fs", Some(<<mz>>), None,
                   Some(<<[name |-> "d", methods |-> Some(<<mTwo>>), classes |-> None,
                           modules |-> None]>>)) }

Garbage == [parses |-> FALSE, value |-> NoModulesDocument]

Responses(moduleName) ==
    {[ok |-> TRUE, body |-> Stringify(d)] : d \in Documents(moduleName)}
        \cup {[ok |-> TRUE, body |-> Garbage],
              [ok |-> FALSE, body |-> Stringify(Wrapped(moduleName, None, None, None))]}

ModuleNames == {"fs", "os"}
ModuleLists == SeqsUpTo(ModuleNames, MaxList)

\* get and getJson
get(resp) == IF ~resp.ok THEN Throw("Error: Non-2xx response", <<>>) ELSE Ok(resp.body, <<>>)

getJson(resp) == IF get(resp).ok THEN Parse(get(resp).value[1]) ELSE get(resp)

\* getModuleDefinition; resp is what the server answers if it is asked
getModuleDefinitionNoCache(moduleName, majorVersion, resp) ==
    LET cachedFilePath == <<majorVersion, moduleName>>
        module == getJson(resp)
    IN  [result |-> module,
         requested |-> Some(cachedFilePath),
         response |-> Some(resp),
         files |-> IF module.ok
                   THEN (cachedFilePath :> Stringify(module.value[1])) @@ cache
                   ELSE cache]

getModuleDefinition(moduleName, majorVersion, resp) ==
    LET cachedFilePath == <<majorVersion, moduleName>>
        module == getJson(resp)
    IN  IF cachedFilePath \in DOMAIN cache
        THEN [result |-> Parse(cache[cachedFilePath]),
              requested |-> None, response |-> None, files |-> cache]
        ELSE [result |-> module,
              requested |-> Some(cachedFilePath),
              response |-> Some(resp),
              files |-> IF module.ok
                        THEN (cachedFilePath :> Stringify(module.value[1])) @@ cache
                        ELSE cache]

\* createModuleForVersion, called without moduleMetadata, from the document on;
\* the value returned is <<>> for null and <<module>> otherwise
createTopLevelModuleStrict(document) ==
    IF document.modules = None
    THEN Throw("TypeError", <<>>)
    ELSE IF Len(document.modules[1]) # 1
    THEN Throw("AssertionError", <<>>)
    ELSE LET m == createModuleForVersion(document.modules[1][1])
         IN IF m.ok THEN Ok(Some(m.value[1]), m.log) ELSE m

createTopLevelModule(document) ==
    IF document.modules = None
    THEN Ok(None, <<>>)
    ELSE IF Len(document.modules[1]) # 1
    THEN Throw("AssertionError", <<>>)
    ELSE LET m == createModuleForVersion(document.modules[1][1])
         IN IF m.ok THEN Ok(Some(m.value[1]), m.log) ELSE m

-----------------------------------------------------------------------------
(* pad and the report *)

PaddingLength == 24

RECURSIVE Spaces(_)
Spaces(n) == IF n = 0 THEN "" ELSE " " \o Spaces(n - 1)

\* Array(n) throws a RangeError when n is negative
pad(str) ==
    IF PaddingLength - Len(str) < 0
    THEN Throw("RangeError", <<>>)
    ELSE Ok(str \o Spaces(PaddingLength - Len(str)), <<>>)

\* interpolation of m.returnType in a template string
ReturnTypeText(returnType) == IF returnType = None THEN "null" ELSE returnType[1]

MethodLine(m) == "- " \o m.name \o ": " \o ReturnTypeText(m.returnType)

\* newModules.find
find(modules, n) ==
    IF \E k \in DOMAIN modules : modules[k].name = n
    THEN Some(modules[CHOOSE k \in DOMAIN modules :
                        /\ modules[k].name = n
                        /\ \A j \in 1..(k - 1) : modules[j].name # n])
    ELSE None

\* the body of oldModules.forEach: the lines it prints, or the error it throws
reportModule(oldModule, newer) ==
    LET newModule == find(newer, oldModule.name)
        oldModuleMethodNames == {oldModule.methods[k].name : k \in DOMAIN oldModule.methods}
        newMethods == SelectSeq(newModule[1].methods,
                                LAMBDA m : m.name \notin oldModuleMethodNames)
        header == pad(newModule[1].name)
    IN  IF newModule = None
        THEN Throw("TypeError", <<>>)
        ELSE IF newMethods = <<>>
        THEN Ok(<<>>, <<>>)
        ELSE IF ~header.ok
        THEN header
        ELSE Ok(<<header.value[1] \o " " \o ToString(Len(newMethods)) \o " new">>
                    \o [k \in DOMAIN newMethods |-> MethodLine(newMethods[k])],
                <<>>)

-----------------------------------------------------------------------------
(* The main function. *)

Init ==
    /\ pc = "start"
    /\ input = None
    /\ output = None
    /\ NotRunning

Exit(code, lines) ==
    /\ pc' = "exited"
    /\ exitCode' = Some(code)
    /\ stderr' = stderr \o lines

ParseArgs ==
    /\ pc = "start"
    /\ \E argv \in Arguments :
          IF Len(argv) < 2
          THEN Exit(1, <<"Missing version arguments">>)
          ELSE IF Number(argv[1]) \in {None, Some(0)} \/ Number(argv[2]) \in {None, Some(0)}
          THEN Exit(1, <<"Must use numbers as arguments">>)
          ELSE pc' = "fetchOldModuleList" /\ UNCHANGED <<exitCode, stderr>>
    /\ UNCHANGED <<cache, oldModuleList, newModuleList, i, oldModules, newModules, idx,
                   stdout, requested, response, topLevelModule, input, output>>

\* fetchModuleList: the list read from the synopsis page, or the failure of get or of
\* the selection in the page
fetchModuleList == {Ok(l, <<>>) : l \in ModuleLists} \cup {Throw("Error", <<>>)}

FetchOldModuleList ==
    /\ pc = "fetchOldModuleList"
    /\ \E r \in fetchModuleList :
          IF r.ok
          THEN /\ oldModuleList' = r.value[1]
               /\ oldModules' = <<>>
               /\ i' = 1
               /\ pc' = "oldModules"
               /\ UNCHANGED <<exitCode, stderr>>
          ELSE /\ Exit(1, <<r.error>>)
               /\ UNCHANGED <<oldModuleList, oldModules, i>>
    /\ requested' = None /\ response' = None /\ topLevelModule' = None
    /\ UNCHANGED <<cache, newModuleList, newModules, idx, stdout, input, output>>

FetchNewModuleList ==
    /\ pc = "fetchNewModuleList"
    /\ \E r \in fetchModuleList :
          IF r.ok
          THEN /\ newModuleList' = r.value[1]
               /\ newModules' = <<>>
               /\ i' = 1
               /\ pc' = "newModules"
               /\ UNCHANGED <<exitCode, stderr>>
          ELSE /\ Exit(1, <<r.error>>)
               /\ UNCHANGED <<newModuleList, newModules, i>>
    /\ requested' = None /\ response' = None /\ topLevelModule' = None
    /\ UNCHANGED <<cache, oldModuleList, oldModules, idx, stdout, input, output>>

\* oldModules.push(m) / newModules.push(m) under if (m)
push(modules, m) == IF m # None THEN Append(modules, m[1]) ELSE modules

\* one iteration of a for loop: createModuleForVersion(list[i], version) and the push
Iteration(moduleName, majorVersion, modules) ==
    \E resp \in Responses(moduleName) :
        LET definition == getModuleDefinition(moduleName, majorVersion, resp)
            m == IF definition.result.ok
                 THEN createTopLevelModule(definition.result.value[1])
                 ELSE definition.result
        IN  /\ cache' = definition.files
            /\ requested' = definition.requested
            /\ response' = definition.response
            /\ topLevelModule' = definition.result.value
            /\ IF m.ok
               THEN /\ modules' = push(modules, m.value[1])
                    /\ i' = i + 1
                    /\ stderr' = stderr \o m.log
                    /\ UNCHANGED <<pc, exitCode>>
               ELSE /\ Exit(1, m.log \o <<m.error>>)
                    /\ UNCHANGED <<modules, i>>

CreateOldModule ==
    /\ pc = "oldModules"
    /\ i <= Len(oldModuleList)
    /\ Iteration(oldModuleList[i], olderVersion, oldModules)
    /\ UNCHANGED <<oldModuleList, newModuleList, newModules, idx, stdout, input, output>>

OldModulesDone ==
    /\ pc = "oldModules"
    /\ i > Len(oldModuleList)
    /\ pc' = "fetchNewModuleList"
    /\ requested' = None /\ response' = None /\ topLevelModule' = None
    /\ UNCHANGED <<cache, oldModuleList, newModuleList, i, oldModules, newModules, idx,
                   stdout, stderr, exitCode, input, output>>

CreateNewModule ==
    /\ pc = "newModules"
    /\ i <= Len(newModuleList)
    /\ Iteration(newModuleList[i], newerVersion, newModules)
    /\ UNCHANGED <<oldModuleList, newModuleList, oldModules, idx, stdout, input, output>>

NewModulesDone ==
    /\ pc = "newModules"
    /\ i > Len(newModuleList)
    /\ pc' = "forEach"
    /\ idx' = 1
    /\ requested' = None /\ response' = None /\ topLevelModule' = None
    /\ UNCHANGED <<cache, oldModuleList, newModuleList, i, oldModules, newModules,
                   stdout, stderr, exitCode, input, output>>

\* one call of the forEach callback
ReportModule ==
    /\ pc = "forEach"
    /\ idx <= Len(oldModules)
    /\ LET r == reportModule(oldModules[idx], newModules)
       IN IF r.ok
          THEN /\ stdout' = stdout \o r.value[1]
               /\ idx' = idx + 1
               /\ UNCHANGED <<pc, exitCode, stderr>>
          ELSE /\ Exit(1, <<r.error>>)
               /\ UNCHANGED <<stdout, idx>>
    /\ UNCHANGED <<cache, oldModuleList, newModuleList, i, oldModules, newModules,
                   requested, response, topLevelModule, input, output>>

\* the main function returns and the process ends
Finish ==
    /\ pc = "forEach"
    /\ idx > Len(oldModules)
    /\ Exit(0, <<>>)
    /\ UNCHANGED <<cache, oldModuleList, newModuleList, i, oldModules, newModules, idx,
                   stdout, requested, response, topLevelModule, input, output>>

\* the tool is started again in the same directory: only the cache files remain
RunAgain ==
    /\ pc = "exited"
    /\ pc' = "start"
    /\ oldModuleList' = <<>>
    /\ newModuleList' = <<>>
    /\ i' = 0
    /\ oldModules' = <<>>
    /\ newModules' = <<>>
    /\ idx' = 0
    /\ stdout' = <<>>
    /\ stderr' = <<>>
    /\ exitCode' = None
    /\ requested' = None
    /\ response' = None
    /\ topLevelModule' = None
    /\ UNCHANGED <<cache, input, output>>

Next ==
    \/ ParseArgs
    \/ FetchOldModuleList
    \/ CreateOldModule
    \/ OldModulesDone
    \/ FetchNewModuleList
    \/ CreateNewModule
    \/ NewModulesDone
    \/ ReportModule
    \/ Finish
    \/ RunAgain

Spec == Init /\ [][Next]_vars

-----------------------------------------------------------------------------
(* The report over bounded sets of normalized modules. *)

nx == createMethod(mx).value[1]
ny == createMethod(my).value[1]
nz == createMethod(mz).value[1]

ReportNames == {"fs", "abcdefghijklmnopqrstuvwx", "internationalization_support"}

OlderChoices == [name : ReportNames, methods : {<<>>, <<nx, ny>>}, classes : {<<>>}]
NewerChoices == [name : ReportNames, methods : {<<nx>>, <<ny, nx, nz>>}, classes : {<<>>}]

InitReport ==
    /\ pc = "forEach"
    /\ idx = 1
    /\ oldModules \in SeqsUpTo(OlderChoices, MaxOld)
    /\ newModules \in SeqsUpTo(NewerChoices, MaxNew)
    /\ cache = <<>>
    /\ oldModuleList = <<>>
    /\ newModuleList = <<>>
    /\ i = 0
    /\ stdout = <<>>
    /\ stderr = <<>>
    /\ exitCode = None
    /\ requested = None
    /\ response = None
    /\ topLevelModule = None
    /\ input = None
    /\ output = None

NextReport == ReportModule \/ Finish

SpecReport == InitReport /\ [][NextReport]_vars

-----------------------------------------------------------------------------
(* Properties of createMethod and createModuleForVersion. *)

Returned(f) == pc = f /\ output # None

\* the members a module declares itself: its normalization without its submodules
Own(moduleMetadata) == createModuleForVersion([moduleMetadata EXCEPT !.modules = None])

Submodules(moduleMetadata) ==
    IF moduleMetadata.modules = None THEN <<>> ELSE moduleMetadata.modules[1]

RECURSIVE OwnThenDescendants(_, _)
OwnThenDescendants(moduleMetadata, member) ==
    Own(moduleMetadata).value[1][member] \o
    Concat([k \in DOMAIN Submodules(moduleMetadata) |->
               OwnThenDescendants(Submodules(moduleMetadata)[k], member)])

RECURSIVE OwnThenSurvivors(_, _)
OwnThenSurvivors(moduleMetadata, member) ==
    Own(moduleMetadata).value[1][member] \o
    Concat([k \in DOMAIN Submodules(moduleMetadata) |->
               IF Own(Submodules(moduleMetadata)[k]).ok
               THEN OwnThenSurvivors(Submodules(moduleMetadata)[k], member)
               ELSE <<>>])

RawMethodCount(moduleMetadata) ==
    IF moduleMetadata.methods = None THEN 0 ELSE Len(moduleMetadata.methods[1])

RECURSIVE DeclaredMethodCount(_)
DeclaredMethodCount(moduleMetadata) ==
    LET subs == Submodules(moduleMetadata)
        counts == [k \in DOMAIN subs |-> <<DeclaredMethodCount(subs[k])>>]
        RECURSIVE Sum(_)
        Sum(ns) == IF ns = <<>> THEN 0 ELSE ns[1] + Sum(Tail(ns))
    IN RawMethodCount(moduleMetadata) + Sum(Concat(counts))

\* C2: when the normalization of a submodule throws, the parent still returns its own
\* members followed by the members of the submodules that did not fail.
C2_DescendantFailureAbsorbed ==
    (Returned("createModuleForVersion returned") /\ Own(input).ok)
        => /\ output[1].ok
           /\ output[1].value[1].methods = OwnThenSurvivors(input, "methods")
           /\ output[1].value[1].classes = OwnThenSurvivors(input, "classes")

C5_ClassesHaveMethods ==
    (Returned("createModuleForVersion returned") /\ output[1].ok)
        => \A k \in DOMAIN output[1].value[1].classes :
              output[1].value[1].classes[k].methods # <<>>

\* C6: a method descriptor with exactly one signature keeps its name and textRaw, and
\* its returnType is null without a return field and the declared type string otherwise.
C6_ReturnTypeCarriedOver ==
    (Returned("createMethod returned") /\ Len(input.signatures) = 1)
        => /\ output[1].ok
           /\ output[1].value[1].name = input.name
           /\ output[1].value[1].signature = input.textRaw
           /\ output[1].value[1].returnType =
                 (IF input.signatures[1]["return"] = None
                  THEN None
                  ELSE Some(input.signatures[1]["return"][1].type))

-----------------------------------------------------------------------------
(* Properties of the report. *)

Matched(oldModule) == \E k \in DOMAIN newModules : newModules[k].name = oldModule.name

FirstMatch(oldModule) ==
    newModules[CHOOSE k \in DOMAIN newModules :
                  /\ newModules[k].name = oldModule.name
                  /\ \A j \in DOMAIN newModules : newModules[j].name = oldModule.name => k <= j]

NewMethodsOf(oldModule) ==
    SelectSeq(FirstMatch(oldModule).methods,
              LAMBDA m : \A k \in DOMAIN oldModule.methods : oldModule.methods[k].name # m.name)

PaddedTo24(str) == IF Len(str) >= 24 THEN str ELSE str \o Spaces(24 - Len(str))

Block(oldModule) ==
    LET new == NewMethodsOf(oldModule)
    IN IF new = <<>>
       THEN <<>>
       ELSE <<PaddedTo24(oldModule.name) \o " " \o ToString(Len(new)) \o " new">>
                \o [k \in DOMAIN new |->
                       "- " \o new[k].name \o ": " \o
                       (IF new[k].returnType = None THEN "null" ELSE new[k].returnType[1])]

Blocks(n) == Concat([k \in 1..n |-> Block(oldModules[k])])

Occurs(lines, text) ==
    \E from \in 0..(Len(text) - Len(lines)) : SubSeq(text, from + 1, from + Len(lines)) = lines

\* C1: when every older module has a same-named newer module, the report is, for the
\* older modules in order, the block of the new methods of the first match, nothing
\* else, and no error is raised.
C1_ReportIsNewMethods ==
    (idx >= 1 /\ \A k \in DOMAIN oldModules : Matched(oldModules[k]))
        => /\ exitCode \in {None, Some(0)}
           /\ stdout = Blocks(idx - 1)

\* C8: every module with at least one new method, whatever the length of its name,
\* gets a block: the padded name, the count and `new`, then one line per new method.
C8_BlockOfEveryModule ==
    (pc = "exited" /\ idx >= 1 /\ \A k \in DOMAIN oldModules : Matched(oldModules[k]))
        => \A k \in DOMAIN oldModules :
              NewMethodsOf(oldModules[k]) # <<>> => Occurs(Block(oldModules[k]), stdout)

\* C10: when some older module has no match, the report fails at that module with
\* exit code 1, after the blocks of the older modules before it and nothing more.
C10_FailsAtMissingMatch ==
    (pc = "exited" /\ idx >= 1 /\ \E k \in DOMAIN oldModules : ~Matched(oldModules[k]))
        => LET missing == CHOOSE k \in DOMAIN oldModules :
                             /\ ~Matched(oldModules[k])
                             /\ \A j \in 1..(k - 1) : Matched(oldModules[j])
           IN /\ exitCode = Some(1)
              /\ idx = missing
              /\ stdout = Blocks(missing - 1)

-----------------------------------------------------------------------------
(* Properties of a run. *)

BadSignatures(methods) ==
    methods # None /\ \E k \in DOMAIN methods[1] : Len(methods[1][k].signatures) # 1

SchemaViolation(document) ==
    /\ document.modules # None
    /\ IF Len(document.modules[1]) # 1
       THEN TRUE
       ELSE LET wrapped == document.modules[1][1]
            IN \/ BadSignatures(wrapped.methods)
               \/ /\ wrapped.classes # None
                  /\ \E k \in DOMAIN wrapped.classes[1] :
                        BadSignatures(wrapped.classes[1][k].methods)

RECURSIVE SingleSignatures(_)
SingleSignatures(moduleMetadata) ==
    /\ ~BadSignatures(moduleMetadata.methods)
    /\ moduleMetadata.classes # None =>
          \A k \in DOMAIN moduleMetadata.classes[1] :
              ~BadSignatures(moduleMetadata.classes[1][k].methods)
    /\ \A k \in DOMAIN Submodules(moduleMetadata) :
          SingleSignatures(Submodules(moduleMetadata)[k])

\* C3: a top-level document with a wrong number of wrapped modules, or with a method of
\* the wrapped module or of one of its classes that has not exactly one signature, ends
\* the run with exit code 1 and nothing on standard output; the number of submodules of
\* a nested module ends nothing.
C3_SchemaViolationFatal ==
    /\ (topLevelModule # None /\ SchemaViolation(topLevelModule[1]))
          => (pc = "exited" /\ exitCode = Some(1) /\ stdout = <<>>)
    /\ ( /\ topLevelModule # None
         /\ topLevelModule[1].modules # None
         /\ Len(topLevelModule[1].modules[1]) = 1
         /\ SingleSignatures(topLevelModule[1].modules[1][1]) )
          => exitCode = None

C3_Witness ==
    /\ pc = "exited"
    /\ exitCode = Some(1)
    /\ topLevelModule # None
    /\ SchemaViolation(topLevelModule[1])
    /\ Len(topLevelModule[1].modules[1]) = 1
    /\ oldModules # <<>>
    /\ newModuleList # <<>>

File(majorVersion, moduleName) == Parse(cache[<<majorVersion, moduleName>>]).value[1]

ModulesOf(majorVersion, moduleList, n) ==
    Concat([k \in 1..n |->
               LET document == File(majorVersion, moduleList[k])
               IN IF document.modules = None
                  THEN <<>>
                  ELSE <<createModuleForVersion(document.modules[1][1]).value[1]>>])

OldProcessed ==
    CASE pc = "oldModules" -> i - 1
      [] pc \in {"fetchNewModuleList", "newModules", "forEach"} -> Len(oldModuleList)
      [] pc = "exited" /\ exitCode = Some(0) -> Len(oldModuleList)
      [] OTHER -> 0

NewProcessed ==
    CASE pc = "newModules" -> i - 1
      [] pc = "forEach" -> Len(newModuleList)
      [] pc = "exited" /\ exitCode = Some(0) -> Len(newModuleList)
      [] OTHER -> 0

\* C7: a document without a modules field does not end the run, and the modules of a
\* version are, in module-list order, the normalized modules of the names whose
\* document has a modules field.
C7_ModulesWithoutFieldSkipped ==
    /\ (topLevelModule # None /\ topLevelModule[1].modules = None) => exitCode = None
    /\ exitCode # Some(1) =>
          /\ oldModules = ModulesOf(olderVersion, oldModuleList, OldProcessed)
          /\ newModules = ModulesOf(newerVersion, newModuleList, NewProcessed)

C7_Witness ==
    /\ pc = "forEach"
    /\ Len(oldModuleList) = 2
    /\ File(olderVersion, oldModuleList[1]).modules = None
    /\ File(olderVersion, oldModuleList[2]).modules # None
    /\ Len(oldModules) = 1

CurrentKey ==
    IF pc = "oldModules"
    THEN <<olderVersion, oldModuleList[i]>>
    ELSE <<newerVersion, newModuleList[i]>>

\* C9: a module document is requested only when its cache file does not exist; the
\* file is created only from a successful, parsable response; an existing file is what
\* the module is read from, and it is never requested again, rewritten or removed.
C9_CacheWriteOnce ==
    [][ /\ requested' # None => requested'[1] \notin DOMAIN cache
        /\ \A key \in DOMAIN cache' \ DOMAIN cache :
              /\ requested' = Some(key)
              /\ response'[1].ok
              /\ response'[1].body.parses
              /\ cache'[key] = response'[1].body
        /\ \A key \in DOMAIN cache : key \in DOMAIN cache' /\ cache'[key] = cache[key]
        /\ ( /\ pc \in {"oldModules", "newModules"}
             /\ topLevelModule' # None
             /\ CurrentKey \in DOMAIN cache )
              => /\ requested' = None
                 /\ topLevelModule' = Some(cache[CurrentKey].value)
        /\ (requested' # None /\ ~(response'[1].ok /\ response'[1].body.parses))
              => cache' = cache
      ]_vars

C9_Witness ==
    /\ pc \in {"oldModules", "newModules"}
    /\ topLevelModule # None
    /\ requested = None
    /\ \E key \in DOMAIN cache : topLevelModule = Some(cache[key].value)

====
